---- MODULE Spec2Model ----
\* Lifecycle reconciliation of the load balancer resource
\* (lb/loadbalancer_resource_crud.go): Create / Read / Update / Delete over one
\* persisted resource data D, the remote client answering nondeterministically.
EXTENDS Integers, Sequences, FiniteSets, TLC

\* ------------------------------------------------------------------ bounds
\* number of refreshes that fit in the configured create / delete timeout
MaxPolls == 3
\* number of lifecycle invocations in one run
MaxCalls == 3

\* ------------------------------------------------------------- identifiers
\* Identifiers are strings; they are modelled as sequences of characters so
\* that strings.HasPrefix is computed and not assumed.
OcidLB == <<"o","c","i","d","1",".","l","o","a","d","b","a","l","a","n","c","e","r">>
\* "ocid1.loadbalancerworkrequest."
OpPrefix == OcidLB \o <<"w","o","r","k","r","e","q","u","e","s","t",".">>
\* "ocid1.loadbalancer."
ResPrefix == OcidLB \o <<".">>
EmptyStr == << >>
Op1 == OpPrefix \o <<"1">>
Op2 == OpPrefix \o <<"2">>
LB1 == ResPrefix \o <<"1">>
BadHandle == <<"x">>
OpHandles == {Op1, Op2}
\* values a work request may carry in LoadBalancerID
LoadBalancerIDs == {EmptyStr, LB1, BadHandle}

HasPrefix(str, prefix) ==
  /\ Len(str) >= Len(prefix)
  /\ \A i \in 1..Len(prefix) : str[i] = prefix[i]

\* ------------------------------------------------------------------ states
ResourceWaitingForWorkRequest == "WAITING_FOR_WORK_REQUEST"
ResourceCreating == "CREATING"
ResourceActive == "ACTIVE"
ResourceDeleting == "DELETING"
ResourceDeleted == "DELETED"
ResourceFailed == "FAILED"
WorkRequestSucceeded == "SUCCEEDED"
WorkRequestFailed == "FAILED"
\* statuses the control plane reports for an operation
WorkRequestStates == {ResourceWaitingForWorkRequest, WorkRequestSucceeded, WorkRequestFailed}
\* lifecycle states the control plane reports for a load balancer
LoadBalancerStates == {ResourceCreating, ResourceActive, ResourceDeleting, ResourceDeleted, ResourceFailed}

CreatedPending == {ResourceWaitingForWorkRequest, ResourceCreating}
CreatedTarget == {ResourceActive}
DeletedPending == {ResourceWaitingForWorkRequest, ResourceDeleting}
DeletedTarget == {ResourceDeleted}

\* ------------------------------------------------------------ remote values
\* *baremetal.WorkRequest; present = FALSE is the nil pointer
NilWorkRequest == [present |-> FALSE, ID |-> EmptyStr, State |-> "", LoadBalancerID |-> EmptyStr]
EmptyWorkRequest == [NilWorkRequest EXCEPT !.present = TRUE]
MkWorkRequest(id, st, lbid) == [present |-> TRUE, ID |-> id, State |-> st, LoadBalancerID |-> lbid]

\* *baremetal.LoadBalancer; present = FALSE is the nil pointer
NilResource ==
  [present |-> FALSE, ID |-> EmptyStr, CompartmentID |-> "", DisplayName |-> "",
   Shape |-> "", SubnetIDs |-> << >>, State |-> "", TimeCreated |-> 0, IPAddresses |-> << >>]
EmptyResource == [NilResource EXCEPT !.present = TRUE]
\* two load balancers that differ in every field but the handle
MkResource(id, st, v) ==
  IF v = 1
  THEN [present |-> TRUE, ID |-> id, CompartmentID |-> "c1", DisplayName |-> "lb1",
        Shape |-> "100Mbps", SubnetIDs |-> <<"s1", "s2">>, State |-> st, TimeCreated |-> 1,
        IPAddresses |-> <<[IPAddress |-> "10.0.0.1", IsPublic |-> TRUE],
                          [IPAddress |-> "10.0.0.2", IsPublic |-> FALSE]>>]
  ELSE [present |-> TRUE, ID |-> id, CompartmentID |-> "c2", DisplayName |-> "lb2",
        Shape |-> "400Mbps", SubnetIDs |-> <<"s2", "s1">>, State |-> st, TimeCreated |-> 2,
        IPAddresses |-> <<[IPAddress |-> "10.0.0.2", IsPublic |-> FALSE]>>]

\* errors: "nil" is no error
ErrNotFound == "NotFound"
ErrTransport == "Transport"
ErrTimeout == "Timeout"
ErrUnexpectedState == "UnexpectedState"

\* answers of Client.CreateLoadBalancer / UpdateLoadBalancer / DeleteLoadBalancer
MutationResponses ==
  {[err |-> ErrTransport, id |-> EmptyStr]} \cup {[err |-> "nil", id |-> h] : h \in OpHandles}

\* answers of Client.GetWorkRequest(id): on an error the pointer is nil or an
\* empty struct, depending on where the client failed
WorkRequestResponses(id) ==
  {[err |-> ErrTransport, wr |-> w] : w \in {NilWorkRequest, EmptyWorkRequest}}
  \cup {[err |-> "nil", wr |-> MkWorkRequest(id, st, lbid)] :
          st \in WorkRequestStates, lbid \in LoadBalancerIDs}
NoWorkRequestResponse == [err |-> "nil", wr |-> NilWorkRequest]

\* answers of Client.GetLoadBalancer(id); only this call reports not-found
LoadBalancerResponses(id) ==
  {[err |-> e, res |-> r] : e \in {ErrNotFound, ErrTransport}, r \in {NilResource, EmptyResource}}
  \cup {[err |-> "nil", res |-> MkResource(id, st, v)] : st \in LoadBalancerStates, v \in 1..2}

\* --------------------------------------------------------- resource data D
DisplayNames == {"lb1", "lb2"}
\* schema.ResourceData handed to Create: configuration set, nothing computed
FreshD(name) ==
  [Id |-> EmptyStr, compartment_id |-> "c1", display_name |-> name, shape |-> "100Mbps",
   subnet_ids |-> <<"s1", "s2">>, id |-> EmptyStr, state |-> "", time_created |-> "",
   ip_addresses |-> << >>]

SetId(d, v) == [d EXCEPT !.Id = v]

\* ---------------------------------------------------------------- accessors
State(wr, res) ==
  IF res.present THEN res.State
  ELSE IF wr.present THEN wr.State
  ELSE ""

ID(wr, res) ==
  IF res.present /\ res.ID # EmptyStr THEN res.ID
  ELSE IF wr.present
       THEN IF wr.State = WorkRequestSucceeded THEN wr.LoadBalancerID ELSE wr.ID
       ELSE EmptyStr

VoidStateKeep(d) == d

VoidState(d) == SetId(d, EmptyStr)

\* baremetal.Time.String()
TimeString(t) == ToString(t)

SetDataNoSubnets(d, res) ==
  IF res.present /\ res.ID # EmptyStr
  THEN [d EXCEPT !.Id = res.ID,
                 !.compartment_id = res.CompartmentID,
                 !.display_name = res.DisplayName,
                 !.shape = res.Shape,
                 !.id = res.ID,
                 !.state = res.State,
                 !.time_created = TimeString(res.TimeCreated),
                 !.ip_addresses = [i \in 1..Len(res.IPAddresses) |-> res.IPAddresses[i].IPAddress]]
  ELSE d

SetData(d, res) ==
  IF res.present /\ res.ID # EmptyStr
  THEN [d EXCEPT !.Id = res.ID,
                 !.compartment_id = res.CompartmentID,
                 !.display_name = res.DisplayName,
                 !.shape = res.Shape,
                 !.subnet_ids = res.SubnetIDs,
                 !.id = res.ID,
                 !.state = res.State,
                 !.time_created = TimeString(res.TimeCreated),
                 !.ip_addresses = [i \in 1..Len(res.IPAddresses) |-> res.IPAddresses[i].IPAddress]]
  ELSE d

\* crud.FilterMissingResourceError(s, &err): a missing-resource error voids
\* the identifier and is replaced by nil
FilterMissingResourceError(d, err) ==
  IF err = ErrNotFound THEN [D |-> VoidState(d), err |-> "nil"]
  ELSE [D |-> d, err |-> err]

\* ---------------------------------------------------------------------- Get
\* Result of one Get(): the context after it, the error e it returns, the
\* panic it raised ("nil" if none) and the client calls it made.
GetResult(d, wr, res, e, pnc, wrCalled, wrErr, wrState, handed, lbCalled, lbArg) ==
  [D |-> d, WorkRequest |-> wr, Resource |-> res, e |-> e, panic |-> pnc,
   idIn |-> EmptyStr, wrCalled |-> wrCalled, wrErr |-> wrErr, wrState |-> wrState,
   handed |-> handed, lbCalled |-> lbCalled, lbArg |-> lbArg]

GetLoadBalancerPartNoCheck(d, wr, res, id, lbResp, wrCalled, wrState, handed) ==
  GetResult(d, wr, lbResp.res, lbResp.err, "nil", wrCalled, "nil", wrState, handed, TRUE, id)

\* lines 188-197: the resource fetch, id being the handle after a possible handoff
GetLoadBalancerPart(d, wr, res, id, lbResp, wrCalled, wrState, handed) ==
  IF ~HasPrefix(id, ResPrefix)
  THEN GetResult(d, wr, res, "nil", "BadPrefix", wrCalled, "nil", wrState, handed, FALSE, EmptyStr)
  ELSE GetResult(d, wr, lbResp.res, lbResp.err, "nil", wrCalled, "nil", wrState, handed, TRUE, id)

HandoffKeepId(d, id) == [D |-> d, WorkRequest |-> NilWorkRequest]

\* lines 178-180: adopt the resource handle, unset the work request
Handoff(d, id) == [D |-> SetId(d, id), WorkRequest |-> NilWorkRequest]

Get(d, wr, res, wrResp, lbResp) ==
  LET id == d.Id
      r ==
       IF id = EmptyStr
       THEN GetResult(d, wr, res, "nil", "EmptyID", FALSE, "nil", "", FALSE, FALSE, EmptyStr)
       ELSE IF HasPrefix(id, OpPrefix)
       THEN IF ~wrResp.wr.present
            \* s.WorkRequest.State on the nil pointer the failed call returned
            THEN GetResult(d, wrResp.wr, res, wrResp.err, "NilDeref", TRUE, wrResp.err, "",
                           FALSE, FALSE, EmptyStr)
            ELSE LET d1 == [d EXCEPT !.state = wrResp.wr.State] IN
                 IF wrResp.wr.State = WorkRequestSucceeded
                 THEN IF wrResp.wr.LoadBalancerID = EmptyStr
                      THEN GetResult(d1, wrResp.wr, res, wrResp.err, "EmptyLoadBalancerID", TRUE,
                                     wrResp.err, wrResp.wr.State, FALSE, FALSE, EmptyStr)
                      ELSE LET h == Handoff(d1, wrResp.wr.LoadBalancerID) IN
                           GetLoadBalancerPart(h.D, h.WorkRequest, res, wrResp.wr.LoadBalancerID,
                                               lbResp, TRUE, wrResp.wr.State, TRUE)
                 ELSE GetResult(d1, wrResp.wr, res, wrResp.err, "nil", TRUE, wrResp.err,
                                wrResp.wr.State, FALSE, FALSE, EmptyStr)
       ELSE GetLoadBalancerPart(d, wr, res, id, lbResp, FALSE, "", FALSE)
  IN [r EXCEPT !.idIn = id]


\* the handle Get() passes to GetLoadBalancer when it starts from identifier id
\* and the work request fetch answers wrResp
LbArg(id, wrResp) ==
  IF HasPrefix(id, OpPrefix) THEN wrResp.wr.LoadBalancerID ELSE id

WRChoices(id) ==
  IF HasPrefix(id, OpPrefix) THEN WorkRequestResponses(id) ELSE {NoWorkRequestResponse}

NoLoadBalancerResponse == [err |-> "nil", res |-> NilResource]

\* the answers to the GetLoadBalancer call of that Get(), if it can make one
LBChoices(id, wrResp) ==
  IF HasPrefix(id, OpPrefix) /\ wrResp.wr.State # WorkRequestSucceeded
  THEN {NoLoadBalancerResponse}
  ELSE LoadBalancerResponses(LbArg(id, wrResp))

\* ----------------------------------------------------------- resource.WaitForState
WaitStepRetryUnknown(pending, target, g) ==
  IF g.panic # "nil" THEN "panic"
  ELSE IF g.e # "nil" THEN g.e
  ELSE IF State(g.WorkRequest, g.Resource) \in target THEN "nil" ELSE "pending"

\* One iteration of StateChangeConf.WaitForState over the Refresh closure:
\* "pending" keeps polling, anything else ends the wait with that error
\* ("nil" = target reached).
WaitStep(pending, target, g) ==
  IF g.panic # "nil" THEN "panic"
  ELSE IF g.e # "nil" THEN g.e
  ELSE LET st == State(g.WorkRequest, g.Resource) IN
       IF st \in target THEN "nil"
       ELSE IF st \in pending THEN "pending"
       ELSE ErrUnexpectedState

\* WaitForCreatedState / WaitForDeletedState after conf.WaitForState returned err
WaitForCreatedState(d, err) ==
  IF err # "nil" THEN FilterMissingResourceError(d, err) ELSE [D |-> d, err |-> "nil"]

WaitForDeletedState(d, err) ==
  IF err # "nil" THEN FilterMissingResourceError(d, err) ELSE [D |-> d, err |-> "nil"]

CreateTailNoSetData(d, wr, res, waitErr) ==
  LET w == WaitForCreatedState(d, waitErr) IN
  IF w.err # "nil" THEN w
  ELSE [D |-> SetId(w.D, ID(wr, res)), err |-> "nil"]

\* Create, lines 62-69: from the end of the wait to the return
CreateTail(d, wr, res, waitErr) ==
  LET w == WaitForCreatedState(d, waitErr) IN
  IF w.err # "nil" THEN w
  ELSE [D |-> SetData(SetId(w.D, ID(wr, res)), res), err |-> "nil"]

\* the SetData() call of line 67, made when the wait returned nil
CreateMat(d, wr, res, waitErr) ==
  LET w == WaitForCreatedState(d, waitErr) IN
  IF w.err # "nil" THEN [ran |-> FALSE, before |-> FreshD("lb1"), res |-> NilResource]
  ELSE [ran |-> TRUE, before |-> SetId(w.D, ID(wr, res)), res |-> res]

DeleteTailAlwaysVoid(d, waitErr) ==
  LET w == WaitForDeletedState(d, waitErr) IN [D |-> VoidState(w.D), err |-> w.err]

DeleteTailNoVoid(d, waitErr) ==
  LET w == WaitForDeletedState(d, waitErr) IN
  IF w.err # "nil" THEN FilterMissingResourceError(w.D, w.err)
  ELSE [D |-> w.D, err |-> "nil"]

\* Delete, lines 121-127
DeleteTail(d, waitErr) ==
  LET w == WaitForDeletedState(d, waitErr) IN
  IF w.err # "nil" THEN FilterMissingResourceError(w.D, w.err)
  ELSE [D |-> VoidState(w.D), err |-> "nil"]

ReadTailNoFilter(g) ==
  IF g.e # "nil" THEN [D |-> g.D, err |-> g.e]
  ELSE [D |-> SetData(g.D, g.Resource), err |-> "nil"]

ReadTailVoidOnNil(g) ==
  IF g.e # "nil" THEN FilterMissingResourceError(g.D, g.e)
  ELSE IF ~g.Resource.present THEN [D |-> VoidState(g.D), err |-> "nil"]
  ELSE [D |-> SetData(g.D, g.Resource), err |-> "nil"]

ReadTailNoSetData(g) ==
  IF g.e # "nil" THEN FilterMissingResourceError(g.D, g.e)
  ELSE [D |-> g.D, err |-> "nil"]

\* Read, lines 73-79, after Get() returned g without a panic
ReadTail(g) ==
  IF g.e # "nil" THEN FilterMissingResourceError(g.D, g.e)
  ELSE [D |-> SetData(g.D, g.Resource), err |-> "nil"]

\* ------------------------------------------------------------------- state
VARIABLES
  op,          \* lifecycle call in progress or last returned
  pc,          \* "idle", "poll" (inside WaitForState), "done"
  ret,         \* "running", "nil", an error, or "panic"
  D,           \* s.D: identifier and field map, persisted between calls
  WorkRequest, \* s.WorkRequest
  Resource,    \* s.Resource
  polls,       \* refreshes made by the current wait
  calls,       \* lifecycle invocations so far
  start,       \* D when the current call started
  issued,      \* operation handle the mutation of this call returned
  failedAt,    \* step of the call that raised its error
  raised,      \* error raised by the mutation, the status fetch, Get or WaitForState
  lastGet,     \* the last Get() of this context
  handoff,     \* the handoff done in this context, if any
  count,       \* client calls made in this context
  seen,        \* composite states the refreshes of the current wait returned
  mat          \* the last SetData() of this context: its arguments

vars == <<op, pc, ret, D, WorkRequest, Resource, polls, calls, start, issued, failedAt,
          raised, lastGet, handoff, count, seen, mat>>

NoGet ==
  [ran |-> FALSE, idIn |-> EmptyStr, wrCalled |-> FALSE, wrErr |-> "nil", wrState |-> "",
   handed |-> FALSE, lbCalled |-> FALSE, lbArg |-> EmptyStr, e |-> "nil", panic |-> "nil",
   idOut |-> EmptyStr, wrOut |-> FALSE, resOut |-> NilResource, afterHandoff |-> FALSE,
   wrSeen |-> NilWorkRequest]

GetSummary(g, after, wrResp) ==
  [ran |-> TRUE, idIn |-> g.idIn, wrCalled |-> g.wrCalled, wrErr |-> g.wrErr,
   wrState |-> g.wrState, handed |-> g.handed, lbCalled |-> g.lbCalled, lbArg |-> g.lbArg,
   e |-> g.e, panic |-> g.panic, idOut |-> g.D.Id, wrOut |-> g.WorkRequest.present,
   resOut |-> g.Resource, afterHandoff |-> after,
   wrSeen |-> IF g.wrCalled THEN wrResp.wr ELSE NilWorkRequest]

NoHandoff == [done |-> FALSE, H |-> EmptyStr]
HandoffAfter(g, wrResp, before) ==
  IF g.handed THEN [done |-> TRUE, H |-> wrResp.wr.LoadBalancerID] ELSE before

NoCount == [create |-> 0, update |-> 0, delete |-> 0, getWR |-> 0, getLB |-> 0]
CountAfter(g) ==
  [count EXCEPT !.getWR = @ + (IF g.wrCalled THEN 1 ELSE 0),
                !.getLB = @ + (IF g.lbCalled THEN 1 ELSE 0)]

NoMat == [ran |-> FALSE, before |-> FreshD("lb1"), res |-> NilResource]
MatOf(d, res) == [ran |-> TRUE, before |-> d, res |-> res]

\* the state a Refresh closure that returned without error reported
SeenAfter(g) ==
  IF g.panic = "nil" /\ g.e = "nil" THEN Append(seen, State(g.WorkRequest, g.Resource)) ELSE seen

Init ==
  /\ op = "none" /\ pc = "idle" /\ ret = "running"
  /\ D = FreshD("lb1")
  /\ WorkRequest = NilWorkRequest /\ Resource = NilResource
  /\ polls = 0 /\ calls = 0
  /\ start = FreshD("lb1")
  /\ issued = EmptyStr /\ failedAt = "none" /\ raised = "nil"
  /\ lastGet = NoGet /\ handoff = NoHandoff /\ count = NoCount
  /\ seen = << >> /\ mat = NoMat

\* the framework starts a call when none is running and the plugin is alive
CanInvoke == pc # "poll" /\ ret # "panic" /\ calls < MaxCalls


\* a new LoadBalancerResourceCrud{D: d, Client: m} (loadbalancer_resource.go)
NewContext(name, d0) ==
  /\ op' = name /\ calls' = calls + 1 /\ start' = d0 /\ polls' = 0 /\ seen' = << >>

\* ------------------------------------------------------------------ Create
\* Create, lines 28-61: issue the mutation, fetch the work request, set the
\* provisional state and identifier, enter the wait.
CreateHead(d0, cr, wrr) ==
  IF cr.err # "nil"
  THEN [pc |-> "done", ret |-> cr.err, D |-> d0, WorkRequest |-> NilWorkRequest,
        issued |-> EmptyStr, failedAt |-> "mutation", raised |-> cr.err]
  ELSE IF wrr.err # "nil"
  THEN [pc |-> "done", ret |-> wrr.err, D |-> d0, WorkRequest |-> NilWorkRequest,
        issued |-> cr.id, failedAt |-> "status", raised |-> wrr.err]
  ELSE LET d1 == [d0 EXCEPT !.state = State(wrr.wr, NilResource)] IN
       [pc |-> "poll", ret |-> "running", D |-> SetId(d1, ID(wrr.wr, NilResource)),
        WorkRequest |-> wrr.wr, issued |-> cr.id, failedAt |-> "none", raised |-> "nil"]

Create ==
  /\ CanInvoke
  /\ D.Id = EmptyStr
  /\ \E name \in DisplayNames, cr \in MutationResponses :
       \E wrr \in (IF cr.err = "nil" THEN WorkRequestResponses(cr.id) ELSE {NoWorkRequestResponse}) :
         LET h == CreateHead(FreshD(name), cr, wrr) IN
         /\ NewContext("Create", FreshD(name))
         /\ pc' = h.pc /\ ret' = h.ret /\ D' = h.D /\ WorkRequest' = h.WorkRequest
         /\ issued' = h.issued /\ failedAt' = h.failedAt
         /\ Resource' = NilResource /\ raised' = h.raised
         /\ lastGet' = NoGet /\ handoff' = NoHandoff
         /\ count' = [NoCount EXCEPT !.create = 1, !.getWR = IF cr.err = "nil" THEN 1 ELSE 0]
         /\ mat' = NoMat

\* one Refresh of WaitForCreatedState and, when it ends the wait, the rest of Create
CreateRefresh ==
  /\ op = "Create" /\ pc = "poll" /\ polls < MaxPolls
  /\ \E wrResp \in WRChoices(D.Id) :
       \E lbResp \in LBChoices(D.Id, wrResp) :
         LET g == Get(D, WorkRequest, Resource, wrResp, lbResp)
             w == WaitStep(CreatedPending, CreatedTarget, g)
             t == CreateTail(g.D, g.WorkRequest, g.Resource, w)
         IN /\ polls' = polls + 1
            /\ seen' = SeenAfter(g)
            /\ mat' = IF w \notin {"pending", "panic"}
                      THEN CreateMat(g.D, g.WorkRequest, g.Resource, w) ELSE NoMat
            /\ WorkRequest' = g.WorkRequest /\ Resource' = g.Resource
            /\ lastGet' = GetSummary(g, handoff.done, wrResp)
            /\ handoff' = HandoffAfter(g, wrResp, handoff)
            /\ count' = CountAfter(g)
            /\ IF w = "pending"
               THEN /\ D' = g.D
                    /\ UNCHANGED <<pc, ret, raised, failedAt>>
               ELSE IF w = "panic"
               THEN /\ D' = g.D /\ pc' = "done" /\ ret' = "panic"
                    /\ failedAt' = "wait" /\ UNCHANGED raised
               ELSE /\ D' = t.D /\ pc' = "done" /\ ret' = t.err /\ raised' = w
                    /\ failedAt' = IF w = "nil" THEN "none" ELSE "wait"
            /\ UNCHANGED <<op, calls, start, issued>>

CreateTimeoutLate ==
  /\ op = "Create" /\ pc = "poll" /\ polls = MaxPolls + 1
  /\ LET t == CreateTail(D, WorkRequest, Resource, ErrTimeout) IN
       /\ D' = t.D /\ pc' = "done" /\ ret' = t.err
       /\ raised' = ErrTimeout /\ failedAt' = "wait"
       /\ mat' = CreateMat(D, WorkRequest, Resource, ErrTimeout)
  /\ UNCHANGED <<op, WorkRequest, Resource, polls, calls, start, issued, lastGet, handoff, count,
                 seen>>

\* the create timeout elapses before a target state was seen
CreateTimeout ==
  /\ op = "Create" /\ pc = "poll" /\ polls = MaxPolls
  /\ LET t == CreateTail(D, WorkRequest, Resource, ErrTimeout) IN
       /\ D' = t.D /\ pc' = "done" /\ ret' = t.err
       /\ raised' = ErrTimeout /\ failedAt' = "wait"
       /\ mat' = CreateMat(D, WorkRequest, Resource, ErrTimeout)
  /\ UNCHANGED <<op, WorkRequest, Resource, polls, calls, start, issued, lastGet, handoff, count,
                 seen>>

\* -------------------------------------------------------------------- Read
Read ==
  /\ CanInvoke
  /\ D.Id # EmptyStr
  /\ \E wrResp \in WRChoices(D.Id) :
       \E lbResp \in LBChoices(D.Id, wrResp) :
         LET g == Get(D, NilWorkRequest, NilResource, wrResp, lbResp)
             t == ReadTail(g)
         IN /\ NewContext("Read", D)
            /\ WorkRequest' = g.WorkRequest /\ Resource' = g.Resource
            /\ lastGet' = GetSummary(g, FALSE, wrResp)
            /\ handoff' = HandoffAfter(g, wrResp, NoHandoff)
            /\ count' = [NoCount EXCEPT !.getWR = IF g.wrCalled THEN 1 ELSE 0,
                                        !.getLB = IF g.lbCalled THEN 1 ELSE 0]
            /\ pc' = "done" /\ issued' = EmptyStr /\ raised' = g.e
            /\ mat' = IF g.panic = "nil" /\ g.e = "nil" THEN MatOf(g.D, g.Resource) ELSE NoMat
            /\ IF g.panic # "nil"
               THEN D' = g.D /\ ret' = "panic" /\ failedAt' = "resolve"
               ELSE /\ D' = t.D /\ ret' = t.err
                    /\ failedAt' = IF g.e # "nil" THEN "resolve" ELSE "none"

\* ------------------------------------------------------------------ Update
UpdateHeadDropsWR(d0, ur, wrr) ==
  IF ur.err # "nil"
  THEN [ret |-> ur.err, D |-> d0, WorkRequest |-> NilWorkRequest, issued |-> EmptyStr,
        failedAt |-> "mutation", raised |-> ur.err]
  ELSE IF wrr.err # "nil"
  THEN [ret |-> wrr.err, D |-> d0, WorkRequest |-> NilWorkRequest, issued |-> ur.id,
        failedAt |-> "status", raised |-> wrr.err]
  ELSE [ret |-> "nil", D |-> SetData(d0, NilResource), WorkRequest |-> NilWorkRequest,
        issued |-> ur.id, failedAt |-> "none", raised |-> "nil"]

\* Update, lines 83-105; the framework has put the planned display_name in D
UpdateHead(d0, ur, wrr) ==
  IF ur.err # "nil"
  THEN [ret |-> ur.err, D |-> d0, WorkRequest |-> NilWorkRequest, issued |-> EmptyStr,
        failedAt |-> "mutation", raised |-> ur.err]
  ELSE IF wrr.err # "nil"
  THEN [ret |-> wrr.err, D |-> d0, WorkRequest |-> NilWorkRequest, issued |-> ur.id,
        failedAt |-> "status", raised |-> wrr.err]
  ELSE [ret |-> "nil", D |-> SetData(d0, NilResource), WorkRequest |-> wrr.wr,
        issued |-> ur.id, failedAt |-> "none", raised |-> "nil"]

Update ==
  /\ CanInvoke
  /\ D.Id # EmptyStr
  /\ \E name \in DisplayNames, ur \in MutationResponses :
       \E wrr \in (IF ur.err = "nil" THEN WorkRequestResponses(ur.id) ELSE {NoWorkRequestResponse}) :
         LET d0 == [D EXCEPT !.display_name = name]
             h == UpdateHead(d0, ur, wrr)
         IN /\ NewContext("Update", d0)
            /\ pc' = "done" /\ ret' = h.ret /\ D' = h.D /\ WorkRequest' = h.WorkRequest
            /\ issued' = h.issued /\ failedAt' = h.failedAt
            /\ Resource' = NilResource /\ raised' = h.raised
            /\ lastGet' = NoGet /\ handoff' = NoHandoff
            /\ count' = [NoCount EXCEPT !.update = 1, !.getWR = IF ur.err = "nil" THEN 1 ELSE 0]
            /\ mat' = IF h.ret = "nil" THEN MatOf(d0, NilResource) ELSE NoMat

\* ------------------------------------------------------------------ Delete
\* Delete, lines 109-119: issue the mutation, fetch the work request, enter the wait
DeleteHead(d0, dr, wrr) ==
  IF dr.err # "nil"
  THEN [pc |-> "done", ret |-> dr.err, WorkRequest |-> NilWorkRequest, issued |-> EmptyStr,
        failedAt |-> "mutation", raised |-> dr.err]
  ELSE IF wrr.err # "nil"
  THEN [pc |-> "done", ret |-> wrr.err, WorkRequest |-> NilWorkRequest, issued |-> dr.id,
        failedAt |-> "status", raised |-> wrr.err]
  ELSE [pc |-> "poll", ret |-> "running", WorkRequest |-> wrr.wr, issued |-> dr.id,
        failedAt |-> "none", raised |-> "nil"]

Delete ==
  /\ CanInvoke
  /\ D.Id # EmptyStr
  /\ \E dr \in MutationResponses :
       \E wrr \in (IF dr.err = "nil" THEN WorkRequestResponses(dr.id) ELSE {NoWorkRequestResponse}) :
         LET h == DeleteHead(D, dr, wrr) IN
         /\ NewContext("Delete", D)
         /\ pc' = h.pc /\ ret' = h.ret /\ WorkRequest' = h.WorkRequest
         /\ issued' = h.issued /\ failedAt' = h.failedAt
         /\ Resource' = NilResource /\ raised' = h.raised
         /\ lastGet' = NoGet /\ handoff' = NoHandoff
         /\ count' = [NoCount EXCEPT !.delete = 1, !.getWR = IF dr.err = "nil" THEN 1 ELSE 0]
         /\ mat' = NoMat
         /\ UNCHANGED D

\* one Refresh of WaitForDeletedState and, when it ends the wait, the rest of Delete
DeleteRefresh ==
  /\ op = "Delete" /\ pc = "poll" /\ polls < MaxPolls
  /\ \E wrResp \in WRChoices(D.Id) :
       \E lbResp \in LBChoices(D.Id, wrResp) :
         LET g == Get(D, WorkRequest, Resource, wrResp, lbResp)
             w == WaitStep(DeletedPending, DeletedTarget, g)
             t == DeleteTail(g.D, w)
         IN /\ polls' = polls + 1
            /\ seen' = SeenAfter(g)
            /\ WorkRequest' = g.WorkRequest /\ Resource' = g.Resource
            /\ lastGet' = GetSummary(g, handoff.done, wrResp)
            /\ handoff' = HandoffAfter(g, wrResp, handoff)
            /\ count' = CountAfter(g)
            /\ IF w = "pending"
               THEN /\ D' = g.D
                    /\ UNCHANGED <<pc, ret, raised, failedAt>>
               ELSE IF w = "panic"
               THEN /\ D' = g.D /\ pc' = "done" /\ ret' = "panic"
                    /\ failedAt' = "wait" /\ UNCHANGED raised
               ELSE /\ D' = t.D /\ pc' = "done" /\ ret' = t.err /\ raised' = w
                    /\ failedAt' = IF w = "nil" THEN "none" ELSE "wait"
            /\ UNCHANGED <<op, calls, start, issued, mat>>

\* the delete timeout elapses before a target state was seen
DeleteTimeout ==
  /\ op = "Delete" /\ pc = "poll" /\ polls = MaxPolls
  /\ LET t == DeleteTail(D, ErrTimeout) IN
       /\ D' = t.D /\ pc' = "done" /\ ret' = t.err
       /\ raised' = ErrTimeout /\ failedAt' = "wait"
  /\ UNCHANGED <<op, WorkRequest, Resource, polls, calls, start, issued, lastGet, handoff, count,
                 seen, mat>>

Next ==
  \/ Create
  \/ CreateRefresh
  \/ CreateTimeout
  \/ Read
  \/ Update
  \/ Delete
  \/ DeleteRefresh
  \/ DeleteTimeout

Spec == Init /\ [][Next]_vars

\* WaitForState is a blocking loop: while a wait is in progress its next
\* refresh or its timeout happens
WaitNext == CreateRefresh \/ CreateTimeout \/ DeleteRefresh \/ DeleteTimeout

FairSpec == Spec /\ WF_vars(WaitNext)

TypeOK ==
  /\ op \in {"none", "Create", "Read", "Update", "Delete"}
  /\ pc \in {"idle", "poll", "done"}
  /\ polls \in 0..MaxPolls + 1
  /\ calls \in 0..MaxCalls + 1


\* ------------------------------------------------------------------ claims
Errors == {ErrNotFound, ErrTransport, ErrTimeout, ErrUnexpectedState}
Returned(name) == op = name /\ pc = "done"

\* C1: whenever Create returns without error, the identifier is the non-empty,
\* resource-prefixed handle of the created resource (never empty, never an
\* operation handle) and the state field is that resource's state, Active.
C1_CreateSuccessIdentifier ==
  (Returned("Create") /\ ret = "nil") =>
     /\ D.Id # EmptyStr /\ HasPrefix(D.Id, ResPrefix) /\ ~HasPrefix(D.Id, OpPrefix)
     /\ Resource.present /\ D.Id = Resource.ID
     /\ D.state = Resource.State /\ D.state = ResourceActive

\* C2: an error raised during Create by createResource, by a getOperationStatus
\* call or by the wait (a not-found refresh included) is the error Create
\* returns; Create never returns success after one.
C2_CreateErrorsSurface ==
  (Returned("Create") /\ raised # "nil") => ret = raised

\* C3: when Create returns an error after createResource returned an operation
\* handle, the identifier is non-empty and names that operation or the resource
\* it produced; the identifier holds the handle before the first refresh.
C3_CreateErrorKeepsOperation ==
  /\ (Returned("Create") /\ issued # EmptyStr /\ ret \in Errors) =>
       (D.Id # EmptyStr /\ (D.Id = issued \/ HasPrefix(D.Id, ResPrefix)))
  /\ (op = "Create" /\ pc = "poll" /\ polls = 0 /\ WorkRequest.State # WorkRequestSucceeded) =>
       D.Id = issued

\* C4: handoff is one-way: the resolve that sees Succeeded with handle H leaves
\* the identifier H and the cached work request unset; every later resolve of
\* the context starts from H, fetches the resource by H and makes no
\* getOperationStatus call; the identifier is never operation-prefixed again.
C4_HandoffOneWay ==
  /\ (lastGet.ran /\ lastGet.handed) =>
       /\ lastGet.wrSeen.State = WorkRequestSucceeded
       /\ handoff.done /\ handoff.H = lastGet.wrSeen.LoadBalancerID
       /\ lastGet.idOut = handoff.H /\ ~lastGet.wrOut
  /\ (lastGet.ran /\ lastGet.afterHandoff) =>
       /\ ~lastGet.wrCalled /\ lastGet.idIn = handoff.H
       /\ lastGet.lbCalled /\ lastGet.lbArg = handoff.H
  /\ handoff.done => (~HasPrefix(D.Id, OpPrefix) /\ ~WorkRequest.present)

C4_Witness ==
  /\ lastGet.ran /\ lastGet.afterHandoff /\ handoff.H = LB1 /\ polls >= 2
  /\ HasPrefix(start.Id, OpPrefix) \/ op = "Create"

\* C5: an error of the getOperationStatus call made while resolving an
\* operation-prefixed identifier is returned unchanged by the lifecycle call:
\* no crash, no swallowing, no resource fetch.
C5_StatusErrorReturned ==
  (lastGet.ran /\ lastGet.wrCalled /\ lastGet.wrErr # "nil") =>
     /\ lastGet.panic = "nil" /\ lastGet.e = lastGet.wrErr /\ ~lastGet.lbCalled
     /\ pc = "done" /\ ret = lastGet.wrErr

\* C6: when a refresh of Delete's wait reports the resource not found, at the
\* first poll or after pending polls, Delete returns success with an empty
\* identifier.
C6_DeleteNotFound ==
  (op = "Delete" /\ lastGet.ran /\ lastGet.lbCalled /\ lastGet.e = ErrNotFound) =>
     (pc = "done" /\ ret = "nil" /\ D.Id = EmptyStr)

C6_Witness ==
  /\ op = "Delete" /\ lastGet.ran /\ lastGet.lbCalled /\ lastGet.e = ErrNotFound
  /\ polls = MaxPolls /\ start.Id = LB1 /\ D.Id = EmptyStr

\* C7 as stated: when Delete fails for a reason other than not-found it returns
\* that error and the identifier equals its value at the start of the call; the
\* identifier is cleared only when Delete returns success.
C7_DeleteErrorKeepsStartId ==
  /\ (Returned("Delete") /\ raised \in Errors \ {ErrNotFound}) =>
       (ret = raised /\ D.Id = start.Id)
  /\ (Returned("Delete") /\ D.Id = EmptyStr) => ret = "nil"

\* C7 amended: when Delete fails for a reason other than not-found it returns
\* that error and the identifier is not cleared: it equals its value at the
\* start of the call, or, when that value was an operation handle and the wait
\* handed off, the resource handle the operation produced; the identifier is
\* cleared only when Delete returns success.
C7_DeleteErrorKeepsIdentifier ==
  /\ (Returned("Delete") /\ raised \in Errors \ {ErrNotFound}) =>
       /\ ret = raised /\ D.Id # EmptyStr
       /\ IF handoff.done
          THEN HasPrefix(start.Id, OpPrefix) /\ D.Id = handoff.H
          ELSE D.Id = start.Id
  /\ (Returned("Delete") /\ HasPrefix(start.Id, ResPrefix) /\ ret # "nil") =>
       (ret = raised /\ D.Id = start.Id)
  /\ (Returned("Delete") /\ D.Id = EmptyStr) => ret = "nil"

C7_Witness ==
  /\ Returned("Delete") /\ ret = ErrTimeout /\ polls = MaxPolls
  /\ D.Id = LB1 /\ start.Id = LB1

\* C8: in Delete's wait, while the delete operation is accepted (status
\* Waiting) and the resource has not yet entered Deleting, the poll keeps
\* polling instead of failing the Delete.
C8_DeleteWaitingIsPending ==
  (op = "Delete" /\ lastGet.ran /\ lastGet.panic = "nil" /\ lastGet.e = "nil"
     /\ WorkRequest.present /\ WorkRequest.State = ResourceWaitingForWorkRequest
     /\ lastGet.resOut.State = ResourceActive) =>
     (ret # ErrUnexpectedState /\ (pc = "poll" \/ ret = ErrTimeout))

\* C9: when the resource fetch of Read's resolve reports not-found (identifier
\* resource-prefixed, or right after a handoff) Read returns no error with an
\* empty identifier; every other error the resolve returns is returned by Read
\* with the identifier not cleared.
C9_ReadNotFound ==
  Returned("Read") =>
    /\ (lastGet.lbCalled /\ lastGet.e = ErrNotFound) => (ret = "nil" /\ D.Id = EmptyStr)
    /\ (lastGet.panic = "nil" /\ lastGet.e \notin {"nil", ErrNotFound}) =>
         (ret = lastGet.e /\ D.Id # EmptyStr /\ D.Id = lastGet.idOut)

C9_Witness ==
  /\ Returned("Read") /\ lastGet.handed /\ lastGet.lbCalled /\ lastGet.e = ErrNotFound
  /\ HasPrefix(start.Id, OpPrefix) /\ D.Id = EmptyStr /\ ret = "nil"

\* C10: a resolve that finds the operation status not yet Succeeded issues no
\* getResource call and leaves the identifier unchanged; a Read in that
\* situation returns no error and changes no field but state, which becomes the
\* operation's status.
C10_PendingResolve ==
  (lastGet.ran /\ lastGet.wrCalled /\ lastGet.wrErr = "nil"
     /\ lastGet.wrSeen.State # WorkRequestSucceeded) =>
    /\ ~lastGet.lbCalled /\ lastGet.idOut = lastGet.idIn /\ lastGet.panic = "nil"
    /\ Returned("Read") =>
         (ret = "nil" /\ D = [start EXCEPT !.state = lastGet.wrSeen.State])

C10_Witness ==
  /\ Returned("Read") /\ lastGet.wrCalled /\ lastGet.wrErr = "nil"
  /\ lastGet.wrSeen.State = WorkRequestFailed
  /\ start.state = ResourceWaitingForWorkRequest /\ D.state = WorkRequestFailed


\* the fields of D hold the values of resource r
Materialized(d, r) ==
  /\ d.Id = r.ID /\ d.id = r.ID
  /\ d.compartment_id = r.CompartmentID
  /\ d.display_name = r.DisplayName
  /\ d.shape = r.Shape
  /\ d.subnet_ids = r.SubnetIDs
  /\ d.state = r.State
  /\ d.time_created = TimeString(r.TimeCreated)
  /\ Len(d.ip_addresses) = Len(r.IPAddresses)
  /\ \A i \in 1..Len(r.IPAddresses) : d.ip_addresses[i] = r.IPAddresses[i].IPAddress

\* C11: a Read started from an operation handle issues no createResource and
\* asks the status of that operation; when the status is Succeeded with a
\* non-empty handle H and getResource(H) returns R, Read returns no error, the
\* identifier is H and every field holds R's value.
C11_ReadResumes ==
  (Returned("Read") /\ HasPrefix(start.Id, OpPrefix)) =>
    /\ count.create = 0 /\ issued = EmptyStr
    /\ lastGet.wrCalled /\ lastGet.idIn = start.Id
    /\ (lastGet.wrErr = "nil" /\ lastGet.wrSeen.State = WorkRequestSucceeded
          /\ lastGet.wrSeen.LoadBalancerID # EmptyStr
          /\ lastGet.lbCalled /\ lastGet.e = "nil") =>
         /\ ret = "nil"
         /\ lastGet.wrSeen.ID = start.Id
         /\ lastGet.lbArg = lastGet.wrSeen.LoadBalancerID
         /\ D.Id = lastGet.wrSeen.LoadBalancerID
         /\ Materialized(D, lastGet.resOut)

C11_Witness ==
  /\ Returned("Read") /\ start.Id = Op1 /\ lastGet.handed /\ lastGet.lbCalled
  /\ lastGet.e = "nil" /\ ret = "nil" /\ D.Id = LB1
  /\ start.subnet_ids # D.subnet_ids /\ D.display_name = "lb2"

\* C12: resolving an identifier that is empty or carries neither prefix fails
\* with InvalidState (the panics of lines 160 and 189) and issues no
\* getResource; the prefixes are disjoint and no getResource call is made with
\* an operation-prefixed handle.
C12_InvalidIdentity ==
  /\ (lastGet.ran /\ (lastGet.idIn = EmptyStr
                      \/ (~HasPrefix(lastGet.idIn, OpPrefix) /\ ~HasPrefix(lastGet.idIn, ResPrefix)))) =>
       (lastGet.panic \in {"EmptyID", "BadPrefix"} /\ ~lastGet.lbCalled /\ ret = "panic")
  /\ (lastGet.ran /\ lastGet.handed /\ ~HasPrefix(lastGet.idOut, ResPrefix)) =>
       (lastGet.panic = "BadPrefix" /\ ~lastGet.lbCalled /\ ret = "panic")
  /\ lastGet.lbCalled =>
       (HasPrefix(lastGet.lbArg, ResPrefix) /\ ~HasPrefix(lastGet.lbArg, OpPrefix))
  /\ ~HasPrefix(OpPrefix, ResPrefix) /\ ~HasPrefix(ResPrefix, OpPrefix)
  /\ \A h \in OpHandles : HasPrefix(h, OpPrefix) /\ ~HasPrefix(h, ResPrefix)

C12_Witness ==
  /\ lastGet.ran /\ lastGet.idIn = BadHandle /\ lastGet.panic = "BadPrefix"
  /\ ~lastGet.lbCalled /\ ret = "panic"

\* C13: an operation that reports Succeeded with an empty resource handle
\* makes the resolve fail with InconsistentResponse (the panic of line 176):
\* no handoff, the identifier is not replaced by the empty handle, no
\* getResource; the same when Create's first status fetch sees it.
C13_SucceededWithoutHandle ==
  /\ (lastGet.ran /\ lastGet.wrErr = "nil" /\ lastGet.wrSeen.State = WorkRequestSucceeded
        /\ lastGet.wrSeen.LoadBalancerID = EmptyStr) =>
       /\ lastGet.panic = "EmptyLoadBalancerID" /\ ret = "panic"
       /\ ~lastGet.handed /\ ~lastGet.lbCalled /\ lastGet.idOut = lastGet.idIn
  /\ (op = "Create" /\ WorkRequest.present /\ WorkRequest.State = WorkRequestSucceeded
        /\ WorkRequest.LoadBalancerID = EmptyStr) =>
       /\ pc = "done" /\ ret = "panic" /\ lastGet.panic = "EmptyLoadBalancerID"
       /\ count.getLB = 0

\* C14: when createResource returns an operation handle, the status is Waiting
\* and then Succeeded with resource handle H and getResource(H) returns a
\* resource in state Active, Create has returned success with identifier H and
\* state Active, after one createResource call.
C14_CreateScenario ==
  (op = "Create" /\ issued \in OpHandles /\ lastGet.ran /\ lastGet.handed
     /\ lastGet.wrSeen.LoadBalancerID = LB1
     /\ lastGet.lbCalled /\ lastGet.e = "nil" /\ lastGet.resOut.State = ResourceActive) =>
    /\ pc = "done" /\ ret = "nil"
    /\ D.Id = LB1 /\ D.state = ResourceActive
    /\ Materialized(D, lastGet.resOut)
    /\ count.create = 1
    /\ \A i \in 1..(Len(seen) - 1) : seen[i] = ResourceWaitingForWorkRequest

C14_Witness ==
  /\ Returned("Create") /\ ret = "nil" /\ issued = Op1 /\ lastGet.handed
  /\ seen = <<ResourceWaitingForWorkRequest, ResourceActive>>
  /\ D.Id = LB1 /\ D.state = ResourceActive /\ count.create = 1

\* C15: when Delete starts from a resource-prefixed identifier, deleteResource
\* returns an operation handle and the polled states are Deleting, Deleting,
\* Deleted, the wait keeps polling after the first two and Delete returns
\* success after exactly three refreshes with an empty identifier.
C15_DeleteScenario ==
  (op = "Delete" /\ HasPrefix(start.Id, ResPrefix) /\ issued \in OpHandles
     /\ polls = Len(seen)) =>
    /\ seen \in {<<ResourceDeleting>>, <<ResourceDeleting, ResourceDeleting>>} =>
         (pc = "poll" /\ ret = "running" /\ D.Id = start.Id)
    /\ seen = <<ResourceDeleting, ResourceDeleting, ResourceDeleted>> =>
         /\ pc = "done" /\ ret = "nil" /\ D.Id = EmptyStr
         /\ polls = 3 /\ count.getLB = 3 /\ count.delete = 1

C15_Witness ==
  /\ Returned("Delete") /\ start.Id = LB1 /\ issued \in OpHandles
  /\ seen = <<ResourceDeleting, ResourceDeleting, ResourceDeleted>>
  /\ ret = "nil" /\ D.Id = EmptyStr

PendingOf(name) == IF name = "Create" THEN CreatedPending ELSE DeletedPending
TargetOf(name) == IF name = "Create" THEN CreatedTarget ELSE DeletedTarget
InWait == op \in {"Create", "Delete"} /\ failedAt \notin {"mutation", "status"} /\ pc # "idle"

\* C16: a refresh that returns a state in neither the pending nor the target
\* set ends the wait at that refresh with UnexpectedState, no refresh follows
\* it; a create operation seen Failed during Create's wait makes Create return
\* that error.
C16_UnexpectedState ==
  /\ (InWait /\ seen # << >>) =>
       /\ \A i \in 1..(Len(seen) - 1) : seen[i] \in PendingOf(op)
       /\ seen[Len(seen)] \notin PendingOf(op) \cup TargetOf(op) =>
            /\ pc = "done" /\ raised = ErrUnexpectedState /\ ret = ErrUnexpectedState
            /\ polls = Len(seen)
  /\ (op = "Create" /\ lastGet.ran /\ lastGet.wrErr = "nil"
        /\ lastGet.wrSeen.State = WorkRequestFailed) =>
       (pc = "done" /\ ret = ErrUnexpectedState /\ polls <= MaxPolls)

C16_Witness ==
  /\ Returned("Create") /\ lastGet.wrSeen.State = WorkRequestFailed /\ polls = 2
  /\ seen = <<ResourceWaitingForWorkRequest, WorkRequestFailed>>
  /\ ret = ErrUnexpectedState

AllPending == \A i \in 1..Len(seen) : seen[i] \in PendingOf(op)

\* C17: every wait of Create and Delete ends; it ends with success, a refresh
\* error, UnexpectedState or Timeout, and when every refresh returned a
\* pending state it fails with Timeout once the timeout has elapsed, never
\* earlier.
C17_WaitTerminates ==
  /\ [](pc = "poll" => <>(pc = "done"))
  /\ []((InWait /\ pc = "done" /\ ret # "panic") =>
          raised \in {"nil", ErrNotFound, ErrTransport, ErrUnexpectedState, ErrTimeout})
  /\ []((InWait /\ raised = ErrTimeout) =>
          (pc = "done" /\ ret = ErrTimeout /\ polls = MaxPolls /\ Len(seen) = MaxPolls
             /\ AllPending))
  /\ []((InWait /\ Len(seen) = MaxPolls /\ AllPending) =>
          (pc = "poll" \/ (raised = ErrTimeout /\ ret = ErrTimeout)))

C17_Witness ==
  /\ Returned("Delete") /\ raised = ErrTimeout /\ ret = ErrTimeout
  /\ Len(seen) = MaxPolls /\ \A i \in 1..Len(seen) : seen[i] = ResourceDeleting

\* C18: SetData leaves the identifier and every field unchanged when the
\* resource is absent or has an empty handle; with a populated resource every
\* tracked field reads back the resource's value, lists in the resource's order.
C18_Materialize ==
  mat.ran =>
    IF mat.res.present /\ mat.res.ID # EmptyStr
    THEN Materialized(D, mat.res)
    ELSE D = mat.before

C18_Witness ==
  /\ mat.ran /\ mat.res.present /\ mat.res.ID = LB1
  /\ mat.before.subnet_ids = <<"s1", "s2">> /\ D.subnet_ids = <<"s2", "s1">>
  /\ mat.before.ip_addresses # D.ip_addresses /\ D.ip_addresses = <<"10.0.0.2">>

ResourceAuthoritative(res) == res.present /\ res.ID # EmptyStr

\* C19: State() and ID() derive from the same source, the resource when it is
\* present, else the work request, else empty; once the resource is populated
\* with a non-empty handle neither falls back to the work request in that
\* context, also after a later resource fetch failed.
C19_AuthoritativeSource ==
  /\ [](/\ Resource.present =>
             (State(WorkRequest, Resource) = Resource.State
                /\ ID(WorkRequest, Resource) = Resource.ID)
        /\ (~Resource.present /\ WorkRequest.present) =>
             (State(WorkRequest, Resource) = WorkRequest.State
                /\ ID(WorkRequest, Resource) \in {WorkRequest.ID, WorkRequest.LoadBalancerID})
        /\ (~Resource.present /\ ~WorkRequest.present) =>
             (State(WorkRequest, Resource) = "" /\ ID(WorkRequest, Resource) = EmptyStr))
  /\ [][(ResourceAuthoritative(Resource) /\ calls' = calls) =>
          /\ ResourceAuthoritative(Resource')
          /\ State(WorkRequest', Resource') = Resource'.State
          /\ ID(WorkRequest', Resource') = Resource'.ID]_vars

\* C20: Update issues one updateResource and one getOperationStatus call, does
\* not poll and calls no getResource; when it returns success the composite
\* state is the status that call observed and the identifier is the one it
\* had at the start of the call.
C20_UpdateFireAndCapture ==
  Returned("Update") =>
    /\ count.update = 1 /\ count.getLB = 0 /\ count.create = 0 /\ count.delete = 0
    /\ polls = 0 /\ seen = << >> /\ ~lastGet.ran
    /\ count.getWR = (IF failedAt = "mutation" THEN 0 ELSE 1)
    /\ ret = "nil" =>
         /\ count.getWR = 1
         /\ WorkRequest.present /\ WorkRequest.ID = issued
         /\ State(WorkRequest, Resource) = WorkRequest.State
         /\ State(WorkRequest, Resource) \in WorkRequestStates
         /\ D.Id = start.Id /\ D.Id # EmptyStr

C20_Witness ==
  /\ Returned("Update") /\ ret = "nil" /\ D.Id = LB1 /\ start.Id = LB1
  /\ State(WorkRequest, Resource) = ResourceWaitingForWorkRequest
  /\ D.state = ResourceActive

====
